---- MODULE Spec2Model ----
(***************************************************************************)
(* Model of multi_relay/static/script.js: the browser-side feed renderer.  *)
(* One WebSocket, three callbacks (onopen, onclose, onmessage) and three   *)
(* handlers (handleInfo, handleRelayStatus, handleNewEvent) that update    *)
(* the connection indicator, the relay status bar and the event feed.      *)
(*                                                                         *)
(* JavaScript strings are TLA+ strings; the string methods the script      *)
(* calls are operators that work character by character.  The HTML that a  *)
(* template literal assigns to innerHTML is kept as a record holding the   *)
(* text substituted into each hole of the (fixed) template.                *)
(***************************************************************************)
EXTENDS Integers, Sequences, FiniteSets, TLC

(***************************************************************************)
(* Bounds of the model.                                                    *)
(***************************************************************************)
\* Longest feed built from the small message set of Spec.
MaxFeed == 2
\* Number of elements rendered from the large string sets of SpecEscape and SpecUrl.
MaxRendered == 1
\* Number of pieces concatenated into an input string.
MaxPieces == 2

(***************************************************************************)
(* String.prototype methods used by the script.                            *)
(***************************************************************************)
CharAt(s, i) == SubSeq(s, i, i)

StartsAt(s, pat, i) ==
    /\ i >= 1
    /\ i + Len(pat) - 1 <= Len(s)
    /\ SubSeq(s, i, i + Len(pat) - 1) = pat

\* s.indexOf(pat), 1-based; 0 when pat does not occur.
indexOf(s, pat) ==
    IF \E i \in 1..Len(s) : StartsAt(s, pat, i)
    THEN CHOOSE i \in 1..Len(s) :
            StartsAt(s, pat, i) /\ \A j \in 1..(i - 1) : ~StartsAt(s, pat, j)
    ELSE 0

\* s.replace(pat, rep) with a string pattern: the first occurrence only,
\* wherever it is in s.
replace(s, pat, rep) ==
    LET i == indexOf(s, pat)
    IN  IF i = 0 THEN s
        ELSE SubSeq(s, 1, i - 1) \o rep \o SubSeq(s, i + Len(pat), Len(s))

\* s.replace(/c/g, rep) for a one-character pattern c: every occurrence.
RECURSIVE replaceAll(_, _, _)
replaceAll(s, c, rep) ==
    IF Len(s) = 0 THEN ""
    ELSE (IF CharAt(s, 1) = c THEN rep ELSE CharAt(s, 1))
            \o replaceAll(SubSeq(s, 2, Len(s)), c, rep)

\* s.replace(/\/$/, ''): one slash, only at the very end of s.
replaceTrailingSlash(s) ==
    IF Len(s) > 0 /\ CharAt(s, Len(s)) = "/" THEN SubSeq(s, 1, Len(s) - 1) ELSE s

\* s.split(sep)[0]: the part of s before the first sep, or all of s.
splitFirst(s, sep) ==
    LET i == indexOf(s, sep)
    IN  IF i = 0 THEN s ELSE SubSeq(s, 1, i - 1)

\* s.slice(start, end): negative indexes count from the end, both are clamped.
slice(s, start, end) ==
    LET len  == Len(s)
        from == IF start < 0 THEN (IF len + start < 0 THEN 0 ELSE len + start)
                ELSE (IF start > len THEN len ELSE start)
        to   == IF end < 0 THEN (IF len + end < 0 THEN 0 ELSE len + end)
                ELSE (IF end > len THEN len ELSE end)
    IN  SubSeq(s, from + 1, to)

(***************************************************************************)
(* Access to the fields of a parsed JSON object.                           *)
(***************************************************************************)
Has(obj, field) == field \in DOMAIN obj

\* msg.type === t
TypeIs(msg, t) == Has(msg, "type") /\ msg.type = t

(***************************************************************************)
(* State.                                                                  *)
(***************************************************************************)
VARIABLES
    readyState,      \* of ws: "CONNECTING", "OPEN" or "CLOSED"
    statusDot,       \* classList of the .status-dot element
    userIdEl,        \* [textContent, title] of the .user-id element
    relayStatuses,   \* the Map url -> {element}; element indexes relayStatusBar
    relayStatusBar,  \* children of #relay-status-bar: the badges, in order
    eventsFeed,      \* the cards of #events-feed, top to bottom
    emptyState,      \* [present, display] of the optional .empty-state element
    last,            \* history: the callback that ran last, with its frame
    arrivals,        \* history: the data of the event frames, in arrival order
    statusLog        \* history: relay url -> status of its latest status frame

vars == <<readyState, statusDot, userIdEl, relayStatuses, relayStatusBar,
          eventsFeed, emptyState, last, arrivals, statusLog>>

ui == <<statusDot, userIdEl, relayStatuses, relayStatusBar, eventsFeed, emptyState>>

(***************************************************************************)
(* The page before any callback has run.  The markup of the page is not    *)
(* part of the script: the indicator may start with either class, and the  *)
(* .empty-state placeholder may be missing.                                *)
(***************************************************************************)
Init ==
    /\ readyState = "CONNECTING"
    /\ statusDot \in SUBSET {"connected", "disconnected"}
    /\ userIdEl = [textContent |-> "", title |-> ""]
    /\ relayStatuses = [u \in {} |-> [element |-> 0]]
    /\ relayStatusBar = << >>
    /\ eventsFeed = << >>
    /\ emptyState \in {[present |-> p, display |-> ""] : p \in BOOLEAN}
    /\ last = [cb |-> "none"]
    /\ arrivals = << >>
    /\ statusLog = [u \in {} |-> ""]

(***************************************************************************)
(* ws.onopen and ws.onclose.                                               *)
(***************************************************************************)
ws_onopen ==
    /\ readyState = "CONNECTING"
    /\ readyState' = "OPEN"
    /\ statusDot' = (statusDot \ {"disconnected"}) \cup {"connected"}
    /\ userIdEl' = [userIdEl EXCEPT !.textContent = "Listening..."]
    /\ last' = [cb |-> "onopen"]
    /\ UNCHANGED <<relayStatuses, relayStatusBar, eventsFeed, emptyState,
                   arrivals, statusLog>>

\* onclose without the classList.remove('connected').
ws_onclose_keepConnected ==
    /\ readyState \in {"CONNECTING", "OPEN"}
    /\ readyState' = "CLOSED"
    /\ statusDot' = statusDot \cup {"disconnected"}
    /\ userIdEl' = [userIdEl EXCEPT !.textContent = "Disconnected"]
    /\ last' = [cb |-> "onclose"]
    /\ UNCHANGED <<relayStatuses, relayStatusBar, eventsFeed, emptyState,
                   arrivals, statusLog>>

ws_onclose ==
    /\ readyState \in {"CONNECTING", "OPEN"}
    /\ readyState' = "CLOSED"
    /\ statusDot' = (statusDot \ {"connected"}) \cup {"disconnected"}
    /\ userIdEl' = [userIdEl EXCEPT !.textContent = "Disconnected"]
    /\ last' = [cb |-> "onclose"]
    /\ UNCHANGED <<relayStatuses, relayStatusBar, eventsFeed, emptyState,
                   arrivals, statusLog>>

(***************************************************************************)
(* handleInfo.                                                             *)
(***************************************************************************)
\* shortKey with the sign of the second slice lost: slice(8) for slice(-8).
shortKey_tailFrom8(pubkey) ==
    slice(pubkey, 0, 8) \o "..." \o slice(pubkey, 8, Len(pubkey))

shortKey(pubkey) ==
    slice(pubkey, 0, 8) \o "..." \o slice(pubkey, -8, Len(pubkey))

handleInfo(msg) ==
    /\ userIdEl' = [textContent |-> shortKey(msg.pubkey), title |-> msg.pubkey]
    /\ UNCHANGED <<statusDot, relayStatuses, relayStatusBar, eventsFeed, emptyState>>

(***************************************************************************)
(* handleRelayStatus.                                                      *)
(***************************************************************************)
\* The lookup of the map left out: every status frame creates a badge.
isNewRelay_always(map, relay) == TRUE

\* !relayStatuses.get(relay)
isNewRelay(map, relay) == ~Has(map, relay)

\* Clean relay url for display.
displayUrl(relay) ==
    replaceTrailingSlash(replace(replace(relay, "wss://", ""), "ws://", ""))

\* The badge as created: class relay-badge, innerHTML `<span>.</span> ${displayUrl}`.
newBadge(relay) ==
    [classList |-> {"relay-badge"}, displayUrl |-> displayUrl(relay), title |-> ""]

\* The add of the status' class without the remove before it.
updateClassList_noRemove(classList, status) ==
    IF status = "connected" THEN classList \cup {"active"}
    ELSE IF status = "error" THEN classList \cup {"error"}
    ELSE classList

\* classList.remove('active', 'error') and the add of the status' class.
updateClassList(classList, status) ==
    LET removed == classList \ {"active", "error"}
    IN  IF status = "connected" THEN removed \cup {"active"}
        ELSE IF status = "error" THEN removed \cup {"error"}
        ELSE removed

\* msg.message || 'Error connecting'
errorTitle(msg) ==
    IF Has(msg, "message") /\ msg.message # "" THEN msg.message ELSE "Error connecting"

updateTitle(title, msg) ==
    IF msg.status = "connected" THEN "Connected"
    ELSE IF msg.status = "error" THEN errorTitle(msg)
    ELSE title

handleRelayStatus(msg) ==
    LET create == isNewRelay(relayStatuses, msg.relay)
        bar    == IF create THEN Append(relayStatusBar, newBadge(msg.relay))
                  ELSE relayStatusBar
        map    == IF create
                  THEN [u \in DOMAIN relayStatuses \cup {msg.relay} |->
                          IF u = msg.relay THEN [element |-> Len(bar)]
                          ELSE relayStatuses[u]]
                  ELSE relayStatuses
        el     == map[msg.relay].element
    IN  /\ relayStatuses' = map
        /\ relayStatusBar' =
              [bar EXCEPT ![el] =
                  [classList  |-> updateClassList(bar[el].classList, msg.status),
                   displayUrl |-> bar[el].displayUrl,
                   title      |-> updateTitle(bar[el].title, msg)]]
        /\ UNCHANGED <<statusDot, userIdEl, eventsFeed, emptyState>>

(***************************************************************************)
(* handleNewEvent.                                                         *)
(***************************************************************************)
Digit(n) == CharAt("0123456789", n + 1)

TwoDigit(n) == Digit(n \div 10) \o Digit(n % 10)

\* new Date(created_at * 1000).toLocaleTimeString([], 2-digit hour and minute),
\* for a page whose locale uses the 24-hour clock and whose time zone is UTC.
timeStr(created_at) ==
    LET minutes == (created_at \div 60) % 1440
    IN  TwoDigit(minutes \div 60) \o ":" \o TwoDigit(minutes % 60)

relayName(eventData) ==
    IF Has(eventData, "_relay") /\ eventData._relay # ""
    THEN splitFirst(replace(eventData._relay, "wss://", ""), "/")
    ELSE "Unknown Relay"

\* The escaping with & replaced last instead of first.
escapeHtml_ampLast(content) ==
    replaceAll(replaceAll(replaceAll(replaceAll(replaceAll(content,
        "<", "&lt;"), ">", "&gt;"), "\"", "&quot;"), "'", "&#039;"), "&", "&amp;")

\* Escape HTML content to prevent XSS (basic).
escapeHtml(content) ==
    replaceAll(replaceAll(replaceAll(replaceAll(replaceAll(content,
        "&", "&amp;"), "<", "&lt;"), ">", "&gt;"), "\"", "&quot;"), "'", "&#039;")

\* The card: class event-card, innerHTML the template with its four holes.
newCard(eventData) ==
    [className |-> "event-card",
     relayName |-> relayName(eventData),
     timeStr   |-> timeStr(eventData.created_at),
     content   |-> escapeHtml(eventData.content),
     id        |-> eventData.id]

\* eventsFeed.appendChild(card) in place of the insertBefore.
insertBefore_append(card, feed) == Append(feed, card)

\* eventsFeed.insertBefore(card, eventsFeed.firstChild)
insertBefore(card, feed) == <<card>> \o feed

handleNewEvent(eventData) ==
    /\ emptyState' = IF emptyState.present
                     THEN [emptyState EXCEPT !.display = "none"]
                     ELSE emptyState
    /\ eventsFeed' = insertBefore(newCard(eventData), eventsFeed)
    /\ UNCHANGED <<statusDot, userIdEl, relayStatuses, relayStatusBar>>

(***************************************************************************)
(* ws.onmessage: dispatch on msg.type.                                     *)
(***************************************************************************)
\* The dispatch with the error branch as a plain else.
ws_onmessage_elseError(msg) ==
    IF TypeIs(msg, "info") THEN handleInfo(msg)
    ELSE IF TypeIs(msg, "status") THEN handleRelayStatus(msg)
    ELSE IF TypeIs(msg, "event") THEN handleNewEvent(msg.data)
    ELSE /\ userIdEl' = [userIdEl EXCEPT !.textContent = "Error"]
         /\ UNCHANGED <<statusDot, relayStatuses, relayStatusBar, eventsFeed, emptyState>>

ws_onmessage(msg) ==
    IF TypeIs(msg, "info") THEN handleInfo(msg)
    ELSE IF TypeIs(msg, "status") THEN handleRelayStatus(msg)
    ELSE IF TypeIs(msg, "event") THEN handleNewEvent(msg.data)
    ELSE IF TypeIs(msg, "error")
    THEN /\ userIdEl' = [userIdEl EXCEPT !.textContent = "Error"]
         /\ UNCHANGED <<statusDot, relayStatuses, relayStatusBar, eventsFeed, emptyState>>
    ELSE UNCHANGED ui

\* A frame is delivered only while the socket is open; the history
\* variables record it.
Receive(msg) ==
    /\ readyState = "OPEN"
    /\ ws_onmessage(msg)
    /\ last' = [cb |-> "onmessage", msg |-> msg]
    /\ arrivals' = IF TypeIs(msg, "event") THEN Append(arrivals, msg.data) ELSE arrivals
    /\ statusLog' = IF TypeIs(msg, "status")
                    THEN [u \in DOMAIN statusLog \cup {msg.relay} |->
                            IF u = msg.relay THEN msg.status ELSE statusLog[u]]
                    ELSE statusLog
    /\ UNCHANGED readyState

(***************************************************************************)
(* The frames of Spec: a small set with every type of frame.               *)
(***************************************************************************)
Pubkey64 == "0123456789abcdeffedcba98765432100011223344556677aabbccddeeff8899"

InfoMsgs == {[type |-> "info", pubkey |-> k] : k \in {Pubkey64, "abcdef"}}

RelayUrls == {"wss://relay.example.com/", "ws://localhost:7000"}

StatusMsgs ==
    {[type |-> "status", relay |-> r, status |-> s] :
        r \in RelayUrls, s \in {"connected", "error", "connecting"}}
    \cup {[type |-> "status", relay |-> r, status |-> "error", message |-> "timeout"] :
        r \in RelayUrls}

EventData ==
    {[id |-> "e1", content |-> "a < b", created_at |-> 7200,
      _relay |-> "wss://relay.example.com/"],
     [id |-> "e2", content |-> "", created_at |-> 60]}

EventMsgs == {[type |-> "event", data |-> d] : d \in EventData}

ErrorMsgs == {[type |-> "error", message |-> "boom"]}

OtherMsgs == {[type |-> "ping"], [data |-> "x"]}

ReceiveInfo == \E msg \in InfoMsgs : Receive(msg)

ReceiveStatus == \E msg \in StatusMsgs : Receive(msg)

ReceiveEvent ==
    /\ Len(eventsFeed) < MaxFeed
    /\ \E msg \in EventMsgs : Receive(msg)

ReceiveError == \E msg \in ErrorMsgs : Receive(msg)

ReceiveOther == \E msg \in OtherMsgs : Receive(msg)

Next ==
    \/ ws_onopen
    \/ ws_onclose
    \/ ReceiveInfo
    \/ ReceiveStatus
    \/ ReceiveEvent
    \/ ReceiveError
    \/ ReceiveOther


Spec == Init /\ [][Next]_vars


(***************************************************************************)
(* Input strings: every concatenation of at most n pieces.                 *)
(***************************************************************************)
RECURSIVE Strings(_, _)
Strings(pieces, n) ==
    IF n = 0 THEN {""}
    ELSE LET shorter == Strings(pieces, n - 1)
         IN  shorter \cup {s \o p : s \in shorter, p \in pieces}

(***************************************************************************)
(* SpecEscape: event frames whose content ranges over strings of the five  *)
(* special characters and the tail of an entity.                           *)
(***************************************************************************)
ContentPieces == {"&", "<", ">", "\"", "'", "amp;"}

Contents == Strings(ContentPieces, MaxPieces)

ReceiveContent ==
    /\ Len(eventsFeed) < MaxRendered
    /\ \E c \in Contents :
          Receive([type |-> "event",
                   data |-> [id |-> "e1", content |-> c, created_at |-> 60,
                             _relay |-> "wss://relay.example.com/"]])

NextEscape == ws_onopen \/ ws_onclose \/ ReceiveContent

SpecEscape == Init /\ [][NextEscape]_vars

(***************************************************************************)
(* SpecUrl: status and event frames whose relay url ranges over strings    *)
(* built from scheme prefixes, slashes, a host name and a tag.             *)
(***************************************************************************)
UrlPieces == {"wss://", "ws://", "/", "relay.example.com", "<b>"}

Urls == Strings(UrlPieces, MaxPieces + 2)

ReceiveUrlStatus ==
    /\ Len(relayStatusBar) + Len(eventsFeed) < MaxRendered
    /\ \E r \in Urls :
          Receive([type |-> "status", relay |-> r, status |-> "connected"])

UrlEventData ==
    {[id |-> "e1", content |-> "a", created_at |-> 60, _relay |-> r] : r \in Urls}
    \cup {[id |-> i, content |-> "a", created_at |-> 60] : i \in {"e1", "<b>"}}

ReceiveUrlEvent ==
    /\ Len(relayStatusBar) + Len(eventsFeed) < MaxRendered
    /\ \E d \in UrlEventData : Receive([type |-> "event", data |-> d])

NextUrl == ws_onopen \/ ws_onclose \/ ReceiveUrlStatus \/ ReceiveUrlEvent

SpecUrl == Init /\ [][NextUrl]_vars

(***************************************************************************)
(* Properties.                                                             *)
(***************************************************************************)
\* The frame handled last, when the last callback was onmessage.
LastIs(t) == last.cb = "onmessage" /\ TypeIs(last.msg, t)

\* The badge of relay url u.
BadgeOf(u) == relayStatusBar[relayStatuses[u].element]

\* The data of the event frame that the i-th card from the top must show.
ArrivalOf(i) == arrivals[Len(arrivals) - i + 1]

C1_BadgePerRelay ==
    /\ DOMAIN relayStatuses = DOMAIN statusLog
    /\ Len(relayStatusBar) = Cardinality(DOMAIN statusLog)
    /\ \A u \in DOMAIN relayStatuses :
          relayStatuses[u].element \in 1..Len(relayStatusBar)
    /\ \A u, v \in DOMAIN relayStatuses :
          relayStatuses[u].element = relayStatuses[v].element => u = v

C1_BadgeKept ==
    /\ Len(relayStatusBar') >= Len(relayStatusBar)
    /\ \A u \in DOMAIN relayStatuses :
          /\ u \in DOMAIN relayStatuses'
          /\ relayStatuses'[u] = relayStatuses[u]
          /\ BadgeOf(u)'.displayUrl = BadgeOf(u).displayUrl

\* C1: the status bar holds exactly one badge for each relay url seen in a
\* status frame; a later status frame for the url reuses the badge, and no
\* badge is ever removed.
C1_OneBadgePerRelay == [](C1_BadgePerRelay) /\ [][C1_BadgeKept]_vars

\* Both relays have a badge, and one of them got a second status frame
\* ("connecting" after "connected": the tooltip stays, the class goes).
C1_Witness ==
    /\ Len(relayStatusBar) = 2
    /\ \E u \in DOMAIN relayStatuses :
          BadgeOf(u).title = "Connected" /\ "active" \notin BadgeOf(u).classList

\* C2: a badge carries the class of the latest status of its relay only:
\* active and not error after connected, error and not active after error,
\* never both; a status of another relay does not change it.
C2_BadgeClassIsLastStatus ==
    \A u \in DOMAIN statusLog :
        LET classes == BadgeOf(u).classList
        IN  /\ statusLog[u] = "connected" =>
                  "active" \in classes /\ "error" \notin classes
            /\ statusLog[u] = "error" =>
                  "error" \in classes /\ "active" \notin classes
            /\ ~({"active", "error"} \subseteq classes)

\* One relay is in error, and the frame handled last was a connected status
\* of the other relay.
C2_Witness ==
    /\ LastIs("status")
    /\ last.msg.status = "connected"
    /\ \E u \in DOMAIN statusLog :
          /\ u # last.msg.relay
          /\ statusLog[u] = "error"
          /\ BadgeOf(u).title = "timeout"

C3_FeedIsArrivalsReversed ==
    /\ Len(eventsFeed) = Len(arrivals)
    /\ \A i \in 1..Len(eventsFeed) :
          /\ eventsFeed[i].id = ArrivalOf(i).id
          /\ eventsFeed[i].timeStr = timeStr(ArrivalOf(i).created_at)

C3_OtherFramesKeepFeed ==
    (last'.cb = "onmessage" /\ ~TypeIs(last'.msg, "event")) => eventsFeed' = eventsFeed

\* C3: the cards of the feed, top to bottom, are the event frames in the
\* reverse of their arrival order, one card per frame, whatever their ids
\* and created_at; a frame of another type does not change the feed.
C3_FeedReverseOfArrival == [](C3_FeedIsArrivalsReversed) /\ [][C3_OtherFramesKeepFeed]_vars

\* The event with the later created_at arrived first and is below the other
\* one, and a frame of another type came after the two.
C3_Witness ==
    /\ Len(eventsFeed) = 2
    /\ eventsFeed[1].id = "e2"
    /\ eventsFeed[2].id = "e1"
    /\ LastIs("status")

\* The five entities that the escaping produces, with the character of each.
Entities ==
    {<<"&amp;", "&">>, <<"&lt;", "<">>, <<"&gt;", ">">>, <<"&quot;", "\"">>,
     <<"&#039;", "'">>}

\* No <, >, " or ' in t, and every & of t starts one of the five entities.
NoRawSpecials(t) ==
    \A i \in 1..Len(t) :
        /\ CharAt(t, i) \notin {"<", ">", "\"", "'"}
        /\ CharAt(t, i) = "&" => \E e \in Entities : StartsAt(t, e[1], i)

\* t with each of the five entities replaced by its character, left to right.
RECURSIVE DecodeEntities(_)
DecodeEntities(t) ==
    IF Len(t) = 0 THEN ""
    ELSE IF \E e \in Entities : StartsAt(t, e[1], 1)
    THEN LET e == CHOOSE e \in Entities : StartsAt(t, e[1], 1)
         IN  e[2] \o DecodeEntities(SubSeq(t, Len(e[1]) + 1, Len(t)))
    ELSE CharAt(t, 1) \o DecodeEntities(SubSeq(t, 2, Len(t)))

\* C4: the text put into a card's event-content element has no raw <, >, "
\* or ', no & other than the start of one of the five entities, and decodes
\* to the content of the event frame.
C4_ContentEscaped ==
    /\ Len(eventsFeed) = Len(arrivals)
    /\ \A i \in 1..Len(eventsFeed) :
          /\ NoRawSpecials(eventsFeed[i].content)
          /\ DecodeEntities(eventsFeed[i].content) = ArrivalOf(i).content

\* A content that is itself the text of an entity.
C4_Witness ==
    \E i \in 1..Len(eventsFeed) :
        /\ i <= Len(arrivals)
        /\ ArrivalOf(i).content = "&amp;"
        /\ eventsFeed[i].content = "&amp;amp;"

C5_Indicator ==
    /\ readyState = "OPEN" =>
          "connected" \in statusDot /\ "disconnected" \notin statusDot
    /\ readyState = "CLOSED" =>
          /\ "disconnected" \in statusDot
          /\ "connected" \notin statusDot
          /\ userIdEl.textContent = "Disconnected"

C5_Forward ==
    /\ readyState = "CLOSED" => readyState' = "CLOSED"
    /\ readyState = "OPEN" => readyState' \in {"OPEN", "CLOSED"}

\* C5: readyState only moves forward and never leaves CLOSED; while OPEN the
\* indicator has class connected and not disconnected; once CLOSED it has
\* class disconnected and not connected and the label reads "Disconnected".
C5_Lifecycle == [](C5_Indicator) /\ [][C5_Forward]_vars

\* Closed after an info frame, a status frame and an event frame.
C5_Witness ==
    /\ readyState = "CLOSED"
    /\ userIdEl.title = Pubkey64
    /\ Len(relayStatusBar) > 0
    /\ Len(eventsFeed) > 0

C8_LabelAfterInfo ==
    (LastIs("info") /\ Len(last.msg.pubkey) = 64) =>
        /\ userIdEl.textContent =
              SubSeq(last.msg.pubkey, 1, 8) \o "..." \o SubSeq(last.msg.pubkey, 57, 64)
        /\ userIdEl.title = last.msg.pubkey

C8_LabelKept ==
    (last'.cb = "onmessage" /\ (TypeIs(last'.msg, "status") \/ TypeIs(last'.msg, "event")))
        => userIdEl' = userIdEl

\* C8: after an info frame with a 64-character pubkey the label reads the
\* first 8 characters, "...", the last 8 characters, and its tooltip is the
\* pubkey; status and event frames leave the label as it is.
C8_ShortKey == [](C8_LabelAfterInfo) /\ [][C8_LabelKept]_vars

\* The label still shows the short key after a status and an event frame.
C8_Witness ==
    /\ userIdEl.textContent = "01234567...eeff8899"
    /\ userIdEl.title = Pubkey64
    /\ Len(relayStatusBar) > 0
    /\ LastIs("event")

\* A type that the dispatch knows.
KnownType(msg) == Has(msg, "type") /\ msg.type \in {"info", "status", "event", "error"}

C9_StepIgnored ==
    (last'.cb = "onmessage" /\ ~KnownType(last'.msg)) => UNCHANGED ui

\* C9: a frame whose type is none of info, status, event, error, or that has
\* no type, changes nothing of the page.
C9_UnknownTypeIgnored == [][C9_StepIgnored]_vars

\* A frame without a type was handled on a page that shows a short key, a
\* badge and a card.
C9_Witness ==
    /\ last.cb = "onmessage"
    /\ ~Has(last.msg, "type")
    /\ userIdEl.title = Pubkey64
    /\ Len(relayStatusBar) > 0
    /\ Len(eventsFeed) > 0

\* The url without a wss:// or ws:// at its start.
StripSchemePrefix(url) ==
    IF StartsAt(url, "wss://", 1) THEN SubSeq(url, 7, Len(url))
    ELSE IF StartsAt(url, "ws://", 1) THEN SubSeq(url, 6, Len(url))
    ELSE url

\* C6: the label of a badge is the relay url without a leading wss:// or
\* ws:// and without one trailing slash, nothing else changed.
C6_BadgeLabel ==
    \A u \in DOMAIN relayStatuses :
        BadgeOf(u).displayUrl = replaceTrailingSlash(StripSchemePrefix(u))

\* C7: the relay name of a card is _relay without its wss:// or ws:// prefix,
\* cut at the first slash; "Unknown Relay" when _relay is absent or empty.
C7_RelayName ==
    \A i \in 1..Len(eventsFeed) :
        i <= Len(arrivals) =>
            eventsFeed[i].relayName =
                IF Has(ArrivalOf(i), "_relay") /\ ArrivalOf(i)._relay # ""
                THEN splitFirst(StripSchemePrefix(ArrivalOf(i)._relay), "/")
                ELSE "Unknown Relay"

\* C10: every text that a frame puts into a card or a badge is escaped.
C10_NoMarkupInjected ==
    /\ \A i \in 1..Len(eventsFeed) :
          /\ NoRawSpecials(eventsFeed[i].relayName)
          /\ NoRawSpecials(eventsFeed[i].content)
          /\ NoRawSpecials(eventsFeed[i].id)
    /\ \A i \in 1..Len(relayStatusBar) :
          NoRawSpecials(relayStatusBar[i].displayUrl)
====
